---- MODULE Spec2Model ----
(***************************************************************************)
(* Model of the server-side Battle Royale room                             *)
(* (server/src/rooms/BattleRoyaleRoom.ts, server/src/schema/               *)
(* BattleRoyaleState.ts).                                                  *)
(*                                                                         *)
(* Units.  Lengths (y, velocityY, x, hole sizes) are integers in 1e-4 of   *)
(* the normalised screen, so every constant of the source is exact; the    *)
(* arithmetic is exact where the source computes in binary floating point. *)
(* vision is in 1e-4, visionDegradationMultiplier in tenths, rotation in   *)
(* 1e-2 degree (its smoothing step is rounded down to that unit; rotation  *)
(* is read by nothing else), time in milliseconds.                         *)
(*                                                                         *)
(* A handler of the room runs to completion on the node event loop, so one *)
(* action is one whole handler.  Handlers are written as operators on the  *)
(* room record r (the synchronised state and the private fields of the     *)
(* room object) so that nested calls compose as they do in the source.     *)
(* Player name and color are display-only and are left out; setName with   *)
(* them.                                                                   *)
(***************************************************************************)
EXTENDS Integers, Sequences, FiniteSets, TLC

\* ---------------------------------------------------------------- bounds
\* Session ids handed out over the life of the room (onJoin calls).
MaxJoins == 2
\* Ticks of the game loop over the life of the room.
MaxTicks == 170
\* The same, for the long flights of FlightSpec.
MaxFlightTicks == 480
\* Flap messages handled while a round is played.
MaxFlaps == 1

\* ------------------------------------------------------ program constants
GAME_SPEED == 50
GRAVITY == 4
JUMP_FORCE == -80
PIPE_DISTANCE == 4000
PIPE_MIN_Y == 2000
PIPE_MAX_Y == 7000
TICK_RATE == 60
MAX_PLAYERS == 20
MIN_HOLES_PER_PIPE == 1
MAX_HOLES_PER_PIPE == 3
MIN_HOLE_SPACING == 4500
MIN_HOLE_SIZE == 2500
MAX_HOLE_SIZE == 3000
\* In hundredths, like the samples of Math.random().
ITEM_SPAWN_CHANCE == 50
VISION_DEGRADATION_RATE == 20
MIN_VISION == 500
DEGRADATION_MULTIPLIER_INCREASE == 3
STARTING_LIVES == 2
RESPAWN_INVULNERABILITY_TIME == 2000
\* Literals of the source, named.
FullVision == 10000
UnitMultiplier == 10
CenterY == 5000
FloorY == 8500
CeilingY == 200
MinVelocity == -200
MaxVelocity == 150
RotationDown == 9000
RotationUp == -2000
BirdX == 3000
BirdSize == 300
PipeWidth == 800
SpawnX == 11000
InitialLastPipeX == 15000
SpawnThresholdBase == 10000
OffScreenX == -1000
MaxAttempts == 20
ItemBonus == 5
CountdownTickMs == 1000
DefaultCountdown == 3

\* process.env.DEBUG_MODE === "true" is d.
MIN_PLAYERS_TO_START(d) == IF d THEN 1 ELSE 2
COUNTDOWN_SECONDS(d) == IF d THEN 0 ELSE 5
minPlayersToEnd(d) == IF d THEN 0 ELSE 1
resetDelay(d) == IF d THEN 0 ELSE 10000
\* 1000 / TICK_RATE, as the whole milliseconds Date.now() advances by.
deltaTime == (1000 + TICK_RATE - 1) \div TICK_RATE

\* Session ids are fresh strings made by the framework, one per connection.
SessionNames == <<"s1", "s2", "s3", "s4", "s5", "s6", "s7", "s8">>
SessionId(n) == SessionNames[n]
NoWinner == ""
\* Date.now() when the room is created: far from 0, as the epoch clock is.
Epoch == 10 * RESPAWN_INVULNERABILITY_TIME

Min(a, b) == IF a < b THEN a ELSE b
Max(a, b) == IF a > b THEN a ELSE b
Abs(a) == IF a < 0 THEN -a ELSE a

\* ------------------------------------------------------------------ state
VARIABLES
    debug,              \* process.env.DEBUG_MODE === "true"
    now,                \* Date.now()
    phase, countdown, startTime, gameTime, playersAlive, totalPlayers,
    winnerId,
    players,            \* MapSchema<Player>, in insertion (iteration) order
    pipes,              \* ArraySchema<Pipe>
    gameLoopInterval,   \* the field is non-null
    countdownInterval,  \* "null", "live" (scheduled), "cleared" (stale handle)
    lastPipeX,
    gameLoops,          \* game-loop intervals the runtime has scheduled
    countdownTimers,    \* countdown intervals the runtime has scheduled
    resetTimers,        \* pending setTimeout(resetRoom) calls
    disposed,           \* onDispose has run
    phaseLog,           \* the values assigned to state.phase by the last handler
    nextSession, ticks, flaps   \* counters of the bounds

vars == <<debug, now, phase, countdown, startTime, gameTime, playersAlive,
          totalPlayers, winnerId, players, pipes, gameLoopInterval,
          countdownInterval, lastPipeX, gameLoops, countdownTimers,
          resetTimers, disposed, phaseLog, nextSession, ticks, flaps>>

\* The room object as one record, for the handlers to thread through.
Room ==
    [phase |-> phase, countdown |-> countdown, startTime |-> startTime,
     gameTime |-> gameTime, playersAlive |-> playersAlive,
     totalPlayers |-> totalPlayers, winnerId |-> winnerId,
     players |-> players, pipes |-> pipes,
     gameLoopInterval |-> gameLoopInterval,
     countdownInterval |-> countdownInterval, lastPipeX |-> lastPipeX,
     gameLoops |-> gameLoops, countdownTimers |-> countdownTimers,
     resetTimers |-> resetTimers, disposed |-> disposed, phaseLog |-> <<>>]

Becomes(r) ==
    /\ phase' = r.phase
    /\ countdown' = r.countdown
    /\ startTime' = r.startTime
    /\ gameTime' = r.gameTime
    /\ playersAlive' = r.playersAlive
    /\ totalPlayers' = r.totalPlayers
    /\ winnerId' = r.winnerId
    /\ players' = r.players
    /\ pipes' = r.pipes
    /\ gameLoopInterval' = r.gameLoopInterval
    /\ countdownInterval' = r.countdownInterval
    /\ lastPipeX' = r.lastPipeX
    /\ gameLoops' = r.gameLoops
    /\ countdownTimers' = r.countdownTimers
    /\ resetTimers' = r.resetTimers
    /\ disposed' = r.disposed
    /\ phaseLog' = r.phaseLog

\* state.phase = v
SetPhase(r, v) == [r EXCEPT !.phase = v, !.phaseLog = Append(@, v)]

\* ----------------------------------------------------------------- schema
NewPlayer(id) ==
    [id |-> id, y |-> CenterY, velocityY |-> 0, rotation |-> 0, score |-> 0,
     alive |-> TRUE, rank |-> 0, eliminatedAt |-> 0, vision |-> FullVision,
     visionDegradationMultiplier |-> UnitMultiplier, lives |-> 2,
     lastHitTime |-> 0]

IndexOf(ps, id) ==
    IF \E i \in 1..Len(ps) : ps[i].id = id
    THEN CHOOSE i \in 1..Len(ps) : ps[i].id = id
    ELSE 0

Remove(s, i) == [k \in 1..(Len(s) - 1) |-> IF k < i THEN s[k] ELSE s[k + 1]]

countAlivePlayers(r) == Cardinality({i \in 1..Len(r.players) : r.players[i].alive})

\* ------------------------------------------------------------ generatePipe
\* Math.random() results are given in hundredths: u stands for u / RandomUnit.
RandomUnit == 10 * 10
Samples == 0..(RandomUnit - 1)
\* The samples one call of generatePipe consumes: holes picks the hole
\* count; ys[i] is the stream of y samples of hole i, attempt a reads
\* ys[i][a] and the last sample repeats when the stream is shorter than the
\* attempts; sizes[i] is the sizeFactor of hole i; item is the spawn roll and
\* pick the sample that chooses the hole of the item.
DrawOf(h, y1, y2, y3, sz, it, pk) ==
    [holes |-> h, ys |-> <<y1, y2, y3>>, sizes |-> <<sz, sz, sz>>,
     item |-> it, pick |-> pk]

StreamAt(stream, a) == stream[Min(a, Len(stream))]

SampleY(u) == PIPE_MIN_Y + (u * (PIPE_MAX_Y - PIPE_MIN_Y)) \div RandomUnit

TooClose(positions, y) ==
    \E k \in 1..Len(positions) : Abs(positions[k] - y) < MIN_HOLE_SPACING

\* do { y = ...; attempts++ } while (attempts < 20 && some(...)), entered
\* with `attempts` attempts made; the result is the last y and the count.
RECURSIVE FindPosition(_, _, _)
FindPosition(positions, stream, attempts) ==
    LET y == SampleY(StreamAt(stream, attempts + 1))
        made == attempts + 1
    IN  IF made < MaxAttempts /\ TooClose(positions, y)
        THEN FindPosition(positions, stream, made)
        ELSE [y |-> y, attempts |-> made]

NewHole(y, sizeFactor) ==
    [y |-> y,
     size |-> MIN_HOLE_SIZE
              + (sizeFactor * (MAX_HOLE_SIZE - MIN_HOLE_SIZE)) \div RandomUnit,
     hasItem |-> FALSE, itemCollectedBy |-> <<>>]

\* Mutant: the hole is placed at the last y tried, whatever the attempts.
RECURSIVE PlaceHolesAnyway(_, _, _, _)
PlaceHolesAnyway(holes, i, numHoles, rnd) ==
    IF i > numHoles THEN holes
    ELSE LET positions == [k \in 1..Len(holes) |-> holes[k].y]
             found == FindPosition(positions, rnd.ys[i], 0)
         IN  PlaceHolesAnyway(Append(holes, NewHole(found.y, rnd.sizes[i])),
                              i + 1, numHoles, rnd)

\* The for loop over the requested holes, from hole i on.
RECURSIVE PlaceHoles(_, _, _, _)
PlaceHoles(holes, i, numHoles, rnd) ==
    IF i > numHoles THEN holes
    ELSE LET positions == [k \in 1..Len(holes) |-> holes[k].y]
             found == FindPosition(positions, rnd.ys[i], 0)
         IN  IF found.attempts < MaxAttempts
             THEN PlaceHoles(Append(holes, NewHole(found.y, rnd.sizes[i])),
                             i + 1, numHoles, rnd)
             ELSE PlaceHoles(holes, i + 1, numHoles, rnd)

\* Mutant: every hole of the pipe gets the item.
PlaceItemInEach(holes, rnd) ==
    IF Len(holes) > 0 /\ rnd.item < ITEM_SPAWN_CHANCE
    THEN [h \in 1..Len(holes) |-> [holes[h] EXCEPT !.hasItem = TRUE]]
    ELSE holes

PlaceItem(holes, rnd) ==
    IF Len(holes) > 0 /\ rnd.item < ITEM_SPAWN_CHANCE
    THEN LET randomHoleIndex == (rnd.pick * Len(holes)) \div RandomUnit
         IN  [holes EXCEPT ![randomHoleIndex + 1].hasItem = TRUE]
    ELSE holes

\* Mutant: the hole count is drawn from 0..MAX_HOLES_PER_PIPE.
NewPipeCountFromZero(rnd) ==
    LET numHoles == (rnd.holes * (MAX_HOLES_PER_PIPE + 1)) \div RandomUnit
    IN  [x |-> SpawnX, passed |-> FALSE,
         holes |-> PlaceItem(PlaceHoles(<<>>, 1, numHoles, rnd), rnd)]

NewPipe(rnd) ==
    LET numHoles == MIN_HOLES_PER_PIPE
                    + (rnd.holes * (MAX_HOLES_PER_PIPE - MIN_HOLES_PER_PIPE + 1))
                      \div RandomUnit
    IN  [x |-> SpawnX, passed |-> FALSE,
         holes |-> PlaceItem(PlaceHoles(<<>>, 1, numHoles, rnd), rnd)]

\* Mutant: the new pipe is appended and the tracker is left where it was.
generatePipeKeepsTracker(r, rnd) ==
    [r EXCEPT !.pipes = Append(@, NewPipe(rnd))]

generatePipe(r, rnd) ==
    [r EXCEPT !.pipes = Append(@, NewPipe(rnd)), !.lastPipeX = SpawnX]

\* ------------------------------------------------------------- game timers
startGameLoop(r) ==
    [r EXCEPT !.gameLoopInterval = TRUE, !.gameLoops = @ + 1]

stopGameLoop(r) ==
    IF r.gameLoopInterval
    THEN [r EXCEPT !.gameLoopInterval = FALSE, !.gameLoops = @ - 1]
    ELSE r

\* clearInterval(this.countdownInterval) under if (this.countdownInterval):
\* clearing a handle that was cleared before does nothing.
clearCountdown(r) ==
    IF r.countdownInterval = "live"
    THEN [r EXCEPT !.countdownInterval = "cleared", !.countdownTimers = @ - 1]
    ELSE r

\* ------------------------------------------------------------- elimination
\* Mutant: the alive count is not recomputed after an elimination.
eliminatePlayerStaleCount(r, i, t) ==
    LET p == r.players[i]
        lives == Max(0, p.lives - 1)
    IN  IF ~p.alive THEN r
        ELSE IF lives > 0
        THEN [r EXCEPT !.players[i] =
                 [p EXCEPT !.lives = lives, !.lastHitTime = t, !.y = CenterY,
                           !.velocityY = 0, !.rotation = 0]]
        ELSE [r EXCEPT !.players[i] =
                 [p EXCEPT !.lives = lives, !.lastHitTime = t,
                           !.alive = FALSE, !.eliminatedAt = t,
                           !.rank = r.playersAlive]]

\* Mutant: a hit adds a life instead of taking one.
eliminatePlayerSignSlip(r, i, t) ==
    LET p == r.players[i]
        lives == Max(0, p.lives + 1)
    IN  IF ~p.alive THEN r
        ELSE [r EXCEPT !.players[i] =
                 [p EXCEPT !.lives = lives, !.lastHitTime = t, !.y = CenterY,
                           !.velocityY = 0, !.rotation = 0]]

\* Mutant: the rank is the alive count after the removal, not before it.
eliminatePlayerRankAfter(r, i, t) ==
    LET p == r.players[i]
        lives == Max(0, p.lives - 1)
    IN  IF ~p.alive THEN r
        ELSE IF lives > 0
        THEN [r EXCEPT !.players[i] =
                 [p EXCEPT !.lives = lives, !.lastHitTime = t, !.y = CenterY,
                           !.velocityY = 0, !.rotation = 0]]
        ELSE LET dead == [r EXCEPT !.players[i] =
                             [p EXCEPT !.lives = lives, !.lastHitTime = t,
                                       !.alive = FALSE, !.eliminatedAt = t]]
                 count == countAlivePlayers(dead)
             IN  [dead EXCEPT !.players[i].rank = count,
                              !.playersAlive = count]

\* Mutant: a hit that leaves lives takes one and leaves the bird where it is.
eliminatePlayerNoRespawn(r, i, t) ==
    LET p == r.players[i]
        lives == Max(0, p.lives - 1)
    IN  IF ~p.alive THEN r
        ELSE IF lives > 0
        THEN [r EXCEPT !.players[i] =
                 [p EXCEPT !.lives = lives, !.lastHitTime = t]]
        ELSE LET dead == [r EXCEPT !.players[i] =
                             [p EXCEPT !.lives = lives, !.lastHitTime = t,
                                       !.alive = FALSE, !.eliminatedAt = t,
                                       !.rank = r.playersAlive]]
             IN  [dead EXCEPT !.playersAlive = countAlivePlayers(dead)]

\* Mutant: the player is only out when a hit finds no life left to take.
eliminatePlayerOneMore(r, i, t) ==
    LET p == r.players[i]
        lives == Max(0, p.lives - 1)
    IN  IF ~p.alive THEN r
        ELSE IF p.lives > 0
        THEN [r EXCEPT !.players[i] =
                 [p EXCEPT !.lives = lives, !.lastHitTime = t, !.y = CenterY,
                           !.velocityY = 0, !.rotation = 0]]
        ELSE LET dead == [r EXCEPT !.players[i] =
                             [p EXCEPT !.lives = lives, !.lastHitTime = t,
                                       !.alive = FALSE, !.eliminatedAt = t,
                                       !.rank = r.playersAlive]]
             IN  [dead EXCEPT !.playersAlive = countAlivePlayers(dead)]

eliminatePlayer(r, i, t) ==
    LET p == r.players[i]
        lives == Max(0, p.lives - 1)
    IN  IF ~p.alive THEN r
        ELSE IF lives > 0
        THEN [r EXCEPT !.players[i] =
                 [p EXCEPT !.lives = lives, !.lastHitTime = t, !.y = CenterY,
                           !.velocityY = 0, !.rotation = 0]]
        ELSE LET dead == [r EXCEPT !.players[i] =
                             [p EXCEPT !.lives = lives, !.lastHitTime = t,
                                       !.alive = FALSE, !.eliminatedAt = t,
                                       !.rank = r.playersAlive]]
             IN  [dead EXCEPT !.playersAlive = countAlivePlayers(dead)]

\* --------------------------------------------------------- checkCollisions
Overlaps(pipe) ==
    /\ BirdX + BirdSize > pipe.x - PipeWidth \div 2
    /\ BirdX - BirdSize < pipe.x + PipeWidth \div 2

\* gapTop = hole.y - hole.size / 2 and gapBottom = hole.y + hole.size / 2,
\* compared doubled so that an odd size stays exact.
InHole(p, hole) ==
    /\ 2 * (p.y - BirdSize) >= 2 * hole.y - hole.size
    /\ 2 * (p.y + BirdSize) <= 2 * hole.y + hole.size

\* The first hole of the pipe the bird is inside, 0 when it is inside none.
HoleOf(p, pipe) ==
    IF \E h \in 1..Len(pipe.holes) : InHole(p, pipe.holes[h])
    THEN CHOOSE h \in 1..Len(pipe.holes) :
             /\ InHole(p, pipe.holes[h])
             /\ \A g \in 1..(h - 1) : ~InHole(p, pipe.holes[g])
    ELSE 0

\* Mutant: the collection does not look at who has collected before.
HasCollectedNever(hole, id) == FALSE

HasCollected(hole, id) ==
    \E c \in 1..Len(hole.itemCollectedBy) : hole.itemCollectedBy[c] = id

\* The body of if (hole.hasItem && !hasCollected && birdX > pipe.x).
collectItem(r, i, k, h) ==
    LET p == r.players[i]
    IN  [r EXCEPT
           !.pipes[k].holes[h].itemCollectedBy = Append(@, p.id),
           !.players[i] =
               [p EXCEPT !.vision = FullVision,
                         !.visionDegradationMultiplier =
                             @ + DEGRADATION_MULTIPLIER_INCREASE,
                         !.score = @ + ItemBonus]]

\* Mutant: the passing point does not look at the passed flag.
RECURSIVE checkPipesPointForAll(_, _, _, _, _)
checkPipesPointForAll(r, i, k, isInvulnerable, t) ==
    IF k > Len(r.pipes) THEN r
    ELSE IF ~Overlaps(r.pipes[k])
    THEN checkPipesPointForAll(r, i, k + 1, isInvulnerable, t)
    ELSE LET pipe == r.pipes[k]
             p == r.players[i]
             h == HoleOf(p, pipe)
             inAnyHole == h # 0
             r1 == IF /\ inAnyHole
                      /\ pipe.holes[h].hasItem
                      /\ ~HasCollected(pipe.holes[h], p.id)
                      /\ BirdX > pipe.x
                   THEN collectItem(r, i, k, h)
                   ELSE r
         IN  IF ~inAnyHole /\ ~isInvulnerable
             THEN eliminatePlayer(r1, i, t)
             ELSE LET r2 == IF BirdX > pipe.x
                            THEN [r1 EXCEPT !.pipes[k].passed = TRUE,
                                            !.players[i].score = @ + 1]
                            ELSE r1
                  IN  checkPipesPointForAll(r2, i, k + 1, isInvulnerable, t)

\* Mutant: the passing point is given before the hit is looked at.
RECURSIVE checkPipesPointBeforeHit(_, _, _, _, _)
checkPipesPointBeforeHit(r, i, k, isInvulnerable, t) ==
    IF k > Len(r.pipes) THEN r
    ELSE IF ~Overlaps(r.pipes[k])
    THEN checkPipesPointBeforeHit(r, i, k + 1, isInvulnerable, t)
    ELSE LET pipe == r.pipes[k]
             p == r.players[i]
             h == HoleOf(p, pipe)
             inAnyHole == h # 0
             r1 == IF /\ inAnyHole
                      /\ pipe.holes[h].hasItem
                      /\ ~HasCollected(pipe.holes[h], p.id)
                      /\ BirdX > pipe.x
                   THEN collectItem(r, i, k, h)
                   ELSE r
             r2 == IF ~pipe.passed /\ BirdX > pipe.x
                   THEN [r1 EXCEPT !.pipes[k].passed = TRUE,
                                   !.players[i].score = @ + 1]
                   ELSE r1
         IN  IF ~inAnyHole /\ ~isInvulnerable
             THEN eliminatePlayer(r2, i, t)
             ELSE checkPipesPointBeforeHit(r2, i, k + 1, isInvulnerable, t)

\* Mutant: the item is also taken while the pipe is level with the bird.
RECURSIVE checkPipesCollectAtLine(_, _, _, _, _)
checkPipesCollectAtLine(r, i, k, isInvulnerable, t) ==
    IF k > Len(r.pipes) THEN r
    ELSE IF ~Overlaps(r.pipes[k])
    THEN checkPipesCollectAtLine(r, i, k + 1, isInvulnerable, t)
    ELSE LET pipe == r.pipes[k]
             p == r.players[i]
             h == HoleOf(p, pipe)
             inAnyHole == h # 0
             r1 == IF /\ inAnyHole
                      /\ pipe.holes[h].hasItem
                      /\ ~HasCollected(pipe.holes[h], p.id)
                      /\ BirdX >= pipe.x
                   THEN collectItem(r, i, k, h)
                   ELSE r
         IN  IF ~inAnyHole /\ ~isInvulnerable
             THEN eliminatePlayer(r1, i, t)
             ELSE LET r2 == IF ~pipe.passed /\ BirdX > pipe.x
                            THEN [r1 EXCEPT !.pipes[k].passed = TRUE,
                                            !.players[i].score = @ + 1]
                            ELSE r1
                  IN  checkPipesCollectAtLine(r2, i, k + 1, isInvulnerable, t)

\* The loop over the pipes from pipe k on; the result is the room after the
\* loop, or after the return taken inside it.
RECURSIVE checkPipes(_, _, _, _, _)
checkPipes(r, i, k, isInvulnerable, t) ==
    IF k > Len(r.pipes) THEN r
    ELSE IF ~Overlaps(r.pipes[k]) THEN checkPipes(r, i, k + 1, isInvulnerable, t)
    ELSE LET pipe == r.pipes[k]
             p == r.players[i]
             h == HoleOf(p, pipe)
             inAnyHole == h # 0
             r1 == IF /\ inAnyHole
                      /\ pipe.holes[h].hasItem
                      /\ ~HasCollected(pipe.holes[h], p.id)
                      /\ BirdX > pipe.x
                   THEN collectItem(r, i, k, h)
                   ELSE r
         IN  IF ~inAnyHole /\ ~isInvulnerable
             THEN eliminatePlayer(r1, i, t)
             ELSE LET r2 == IF ~pipe.passed /\ BirdX > pipe.x
                            THEN [r1 EXCEPT !.pipes[k].passed = TRUE,
                                            !.players[i].score = @ + 1]
                            ELSE r1
                  IN  checkPipes(r2, i, k + 1, isInvulnerable, t)

\* Mutant: the invulnerability lasts half the configured time.
checkCollisionsShortWindow(r, i, t) ==
    LET p == r.players[i]
        isInvulnerable ==
            t - p.lastHitTime < RESPAWN_INVULNERABILITY_TIME \div 2
    IN  IF p.y > FloorY /\ ~isInvulnerable
        THEN eliminatePlayer(r, i, t)
        ELSE LET p1 == IF p.y > FloorY
                       THEN [p EXCEPT !.y = FloorY,
                                      !.velocityY = Min(0, p.velocityY)]
                       ELSE p
                 p2 == IF p1.y < CeilingY
                       THEN [p1 EXCEPT !.y = CeilingY, !.velocityY = 0]
                       ELSE p1
             IN  checkPipes([r EXCEPT !.players[i] = p2], i, 1,
                            isInvulnerable, t)

\* Mutant: the ceiling takes a life like the floor does.
checkCollisionsCeilingHurts(r, i, t) ==
    LET p == r.players[i]
        isInvulnerable == t - p.lastHitTime < RESPAWN_INVULNERABILITY_TIME
    IN  IF (p.y > FloorY \/ p.y < CeilingY) /\ ~isInvulnerable
        THEN eliminatePlayer(r, i, t)
        ELSE LET p1 == IF p.y > FloorY
                       THEN [p EXCEPT !.y = FloorY,
                                      !.velocityY = Min(0, p.velocityY)]
                       ELSE p
                 p2 == IF p1.y < CeilingY
                       THEN [p1 EXCEPT !.y = CeilingY, !.velocityY = 0]
                       ELSE p1
             IN  checkPipes([r EXCEPT !.players[i] = p2], i, 1,
                            isInvulnerable, t)

checkCollisions(r, i, t) ==
    LET p == r.players[i]
        isInvulnerable == t - p.lastHitTime < RESPAWN_INVULNERABILITY_TIME
    IN  IF p.y > FloorY /\ ~isInvulnerable
        THEN eliminatePlayer(r, i, t)
        ELSE LET p1 == IF p.y > FloorY
                       THEN [p EXCEPT !.y = FloorY,
                                      !.velocityY = Min(0, p.velocityY)]
                       ELSE p
                 p2 == IF p1.y < CeilingY
                       THEN [p1 EXCEPT !.y = CeilingY, !.velocityY = 0]
                       ELSE p1
             IN  checkPipes([r EXCEPT !.players[i] = p2], i, 1,
                            isInvulnerable, t)

\* ------------------------------------------------------------ updatePlayer
\* Mutant: the vision is not held at MIN_VISION.
IntegrateNoVisionFloor(p) ==
    LET v == Max(MinVelocity, Min(MaxVelocity, p.velocityY + GRAVITY))
        targetRotation == IF v > 0 THEN RotationDown ELSE RotationUp
        rot == p.rotation + (targetRotation - p.rotation) \div 10
        degradationRate ==
            (VISION_DEGRADATION_RATE * p.visionDegradationMultiplier)
            \div UnitMultiplier
    IN  [p EXCEPT !.velocityY = v, !.y = @ + v,
                  !.rotation = Max(RotationUp, Min(RotationDown, rot)),
                  !.vision = @ - degradationRate]

\* Mutant: the velocity is not clamped.
IntegrateNoVelocityClamp(p) ==
    LET v == p.velocityY + GRAVITY
        targetRotation == IF v > 0 THEN RotationDown ELSE RotationUp
        rot == p.rotation + (targetRotation - p.rotation) \div 10
        degradationRate ==
            (VISION_DEGRADATION_RATE * p.visionDegradationMultiplier)
            \div UnitMultiplier
    IN  [p EXCEPT !.velocityY = v, !.y = @ + v,
                  !.rotation = Max(RotationUp, Min(RotationDown, rot)),
                  !.vision = Max(MIN_VISION, @ - degradationRate)]

\* Mutant: the vision is lowered by the base rate, whatever the multiplier.
IntegrateBaseRate(p) ==
    LET v == Max(MinVelocity, Min(MaxVelocity, p.velocityY + GRAVITY))
        targetRotation == IF v > 0 THEN RotationDown ELSE RotationUp
        rot == p.rotation + (targetRotation - p.rotation) \div 10
    IN  [p EXCEPT !.velocityY = v, !.y = @ + v,
                  !.rotation = Max(RotationUp, Min(RotationDown, rot)),
                  !.vision = Max(MIN_VISION, @ - VISION_DEGRADATION_RATE)]

Integrate(p) ==
    LET v == Max(MinVelocity, Min(MaxVelocity, p.velocityY + GRAVITY))
        targetRotation == IF v > 0 THEN RotationDown ELSE RotationUp
        rot == p.rotation + (targetRotation - p.rotation) \div 10
        degradationRate ==
            (VISION_DEGRADATION_RATE * p.visionDegradationMultiplier)
            \div UnitMultiplier
    IN  [p EXCEPT !.velocityY = v, !.y = @ + v,
                  !.rotation = Max(RotationUp, Min(RotationDown, rot)),
                  !.vision = Max(MIN_VISION, @ - degradationRate)]

updatePlayer(r, i, t) ==
    checkCollisions([r EXCEPT !.players[i] = Integrate(@)], i, t)

\* Mutant: the loop over the players does not look at alive.
RECURSIVE updatePlayersAll(_, _, _)
updatePlayersAll(r, i, t) ==
    IF i > Len(r.players) THEN r
    ELSE updatePlayersAll(updatePlayer(r, i, t), i + 1, t)

\* this.state.players.forEach, from player i on, in insertion order.
RECURSIVE updatePlayers(_, _, _)
updatePlayers(r, i, t) ==
    IF i > Len(r.players) THEN r
    ELSE updatePlayers(IF r.players[i].alive THEN updatePlayer(r, i, t) ELSE r,
                       i + 1, t)

\* ------------------------------------------------------------- updatePipes

\* Mutant: a pipe is dropped as soon as it is at the left limit, not past it.
MovePipesDropAtLimit(ps) ==
    LET moved == [k \in 1..Len(ps) |-> [ps[k] EXCEPT !.x = @ - GAME_SPEED]]
    IN  SelectSeq(moved, LAMBDA pipe : ~(pipe.x <= OffScreenX))

\* Every pipe moves left by gameSpeed; the ones left of the screen go.
MovePipes(ps) ==
    LET moved == [k \in 1..Len(ps) |-> [ps[k] EXCEPT !.x = @ - GAME_SPEED]]
    IN  SelectSeq(moved, LAMBDA pipe : ~(pipe.x < OffScreenX))

\* Mutant: the spawn test is made against the spawn x, not the screen edge.
updatePipesFromSpawnX(r, rnd) ==
    LET r1 == [r EXCEPT !.pipes = MovePipes(@), !.lastPipeX = @ - GAME_SPEED]
    IN  IF r1.lastPipeX < SpawnX - PIPE_DISTANCE
        THEN generatePipe(r1, rnd)
        ELSE r1

\* Mutant: a pipe is generated in every tick.
updatePipesEveryTick(r, rnd) ==
    LET r1 == [r EXCEPT !.pipes = MovePipes(@), !.lastPipeX = @ - GAME_SPEED]
    IN  generatePipe(r1, rnd)

updatePipes(r, rnd) ==
    LET r1 == [r EXCEPT !.pipes = MovePipes(@), !.lastPipeX = @ - GAME_SPEED]
    IN  IF r1.lastPipeX < SpawnThresholdBase - PIPE_DISTANCE
        THEN generatePipe(r1, rnd)
        ELSE r1

\* --------------------------------------------------------------- lifecycle
\* Mutant: the round start leaves the lives as they were.
startGameKeepLives(r, t, rnd) ==
    LET r1 == [SetPhase(r, "playing") EXCEPT
                  !.startTime = t, !.playersAlive = countAlivePlayers(r)]
        r2 == [r1 EXCEPT !.players =
                  [i \in 1..Len(r1.players) |->
                      [r1.players[i] EXCEPT
                          !.y = CenterY, !.velocityY = 0, !.rotation = 0,
                          !.score = 0, !.alive = TRUE, !.vision = FullVision,
                          !.visionDegradationMultiplier = UnitMultiplier,
                          !.lastHitTime = 0]]]
        r3 == [r2 EXCEPT !.pipes = <<>>, !.lastPipeX = InitialLastPipeX]
    IN  startGameLoop(generatePipe(r3, rnd))

startGame(r, t, rnd) ==
    LET r1 == [SetPhase(r, "playing") EXCEPT
                  !.startTime = t, !.playersAlive = countAlivePlayers(r)]
        r2 == [r1 EXCEPT !.players =
                  [i \in 1..Len(r1.players) |->
                      [r1.players[i] EXCEPT
                          !.y = CenterY, !.velocityY = 0, !.rotation = 0,
                          !.score = 0, !.alive = TRUE, !.vision = FullVision,
                          !.visionDegradationMultiplier = UnitMultiplier,
                          !.lives = STARTING_LIVES, !.lastHitTime = 0]]]
        r3 == [r2 EXCEPT !.pipes = <<>>, !.lastPipeX = InitialLastPipeX]
    IN  startGameLoop(generatePipe(r3, rnd))

startCountdown(r, d, t, rnd) ==
    IF r.phase # "waiting" THEN r
    ELSE LET r1 == [SetPhase(r, "countdown") EXCEPT
                       !.countdown = COUNTDOWN_SECONDS(d)]
         IN  IF COUNTDOWN_SECONDS(d) = 0
             THEN startGame(r1, t, rnd)
             ELSE [r1 EXCEPT !.countdownInterval = "live",
                             !.countdownTimers = @ + 1]

checkStartConditions(r, d, t, rnd) ==
    IF r.phase # "waiting" THEN r
    ELSE IF Len(r.players) >= MIN_PLAYERS_TO_START(d)
    THEN startCountdown(r, d, t, rnd)
    ELSE r

\* Mutant: the round starts one firing late, when the value is below 0.
countdownTickLate(r, t, rnd) ==
    LET r1 == [r EXCEPT !.countdown = @ - 1]
    IN  IF r1.countdown < 0
        THEN startGame(clearCountdown(r1), t, rnd)
        ELSE r1

\* Mutant: the last firing starts the round and leaves the interval running.
countdownTickNoClear(r, t, rnd) ==
    LET r1 == [r EXCEPT !.countdown = @ - 1]
    IN  IF r1.countdown <= 0
        THEN startGame(r1, t, rnd)
        ELSE r1

\* The callback of the countdown interval.
countdownTick(r, t, rnd) ==
    LET r1 == [r EXCEPT !.countdown = @ - 1]
    IN  IF r1.countdown <= 0
        THEN startGame(clearCountdown(r1), t, rnd)
        ELSE r1

\* Mutant: the winner is recorded but gets no rank.
FindWinnerNoRank(r) ==
    LET alive == {i \in 1..Len(r.players) : r.players[i].alive}
    IN  IF alive = {} THEN r
        ELSE LET last == CHOOSE i \in alive : \A j \in alive : j <= i
             IN  [r EXCEPT !.winnerId = r.players[last].id]

\* The winner loop of endGame: the last alive player in iteration order.
FindWinner(r) ==
    LET alive == {i \in 1..Len(r.players) : r.players[i].alive}
    IN  IF alive = {} THEN r
        ELSE LET last == CHOOSE i \in alive : \A j \in alive : j <= i
             IN  [r EXCEPT
                    !.players = [i \in 1..Len(r.players) |->
                                    IF r.players[i].alive
                                    THEN [r.players[i] EXCEPT !.rank = 1]
                                    ELSE r.players[i]],
                    !.winnerId = r.players[last].id]

\* Mutant: no reset is scheduled at the end of a round.
endGameNoResetTimer(r) ==
    FindWinner(SetPhase(stopGameLoop(r), "finished"))

endGame(r) ==
    LET r1 == FindWinner(SetPhase(stopGameLoop(r), "finished"))
    IN  [r1 EXCEPT !.resetTimers = @ + 1]

\* Mutant: the win check does not look at the phase.
checkWinConditionAnyPhase(r, d) ==
    IF countAlivePlayers(r) <= minPlayersToEnd(d) THEN endGame(r)
    ELSE r

checkWinCondition(r, d) ==
    IF r.phase # "playing" THEN r
    ELSE IF countAlivePlayers(r) <= minPlayersToEnd(d) THEN endGame(r)
    ELSE r

\* Mutant: the reset does not look at the start conditions again.
resetRoomNoStartCheck(r, d, t, rnd) ==
    LET r1 == [SetPhase(r, "waiting") EXCEPT
                  !.countdown = COUNTDOWN_SECONDS(d), !.winnerId = NoWinner,
                  !.pipes = <<>>, !.lastPipeX = InitialLastPipeX]
        r2 == [r1 EXCEPT !.players =
                  [i \in 1..Len(r1.players) |->
                      [r1.players[i] EXCEPT
                          !.y = CenterY, !.velocityY = 0, !.rotation = 0,
                          !.score = 0, !.alive = TRUE, !.rank = 0]]]
    IN  [r2 EXCEPT !.playersAlive = countAlivePlayers(r2)]

resetRoom(r, d, t, rnd) ==
    LET r1 == [SetPhase(r, "waiting") EXCEPT
                  !.countdown = COUNTDOWN_SECONDS(d), !.winnerId = NoWinner,
                  !.pipes = <<>>, !.lastPipeX = InitialLastPipeX]
        r2 == [r1 EXCEPT !.players =
                  [i \in 1..Len(r1.players) |->
                      [r1.players[i] EXCEPT
                          !.y = CenterY, !.velocityY = 0, !.rotation = 0,
                          !.score = 0, !.alive = TRUE, !.rank = 0]]]
        r3 == [r2 EXCEPT !.playersAlive = countAlivePlayers(r2)]
    IN  checkStartConditions(r3, d, t, rnd)

update(r, d, t, rnd) ==
    IF r.phase # "playing" THEN r
    ELSE LET r1 == [r EXCEPT !.gameTime = t - r.startTime]
             r2 == updatePipes(r1, rnd)
             r3 == updatePlayers(r2, 1, t)
         IN  checkWinCondition(r3, d)

\* ---------------------------------------------------------------- handlers
onJoin(r, id, d, t, rnd) ==
    LET r1 == [r EXCEPT !.players = Append(@, NewPlayer(id))]
        r2 == [r1 EXCEPT !.totalPlayers = Len(r1.players),
                         !.playersAlive = countAlivePlayers(r1)]
    IN  checkStartConditions(r2, d, t, rnd)

\* Mutant: a leave does not check the win condition.
onLeaveNoWinCheck(r, id, d) ==
    LET i == IndexOf(r.players, id)
        r1 == IF i = 0 THEN r ELSE [r EXCEPT !.players = Remove(@, i)]
    IN  [r1 EXCEPT !.totalPlayers = Len(r1.players),
                   !.playersAlive = countAlivePlayers(r1)]

onLeave(r, id, d) ==
    LET i == IndexOf(r.players, id)
        r1 == IF i = 0 THEN r ELSE [r EXCEPT !.players = Remove(@, i)]
        r2 == [r1 EXCEPT !.totalPlayers = Len(r1.players),
                         !.playersAlive = countAlivePlayers(r1)]
    IN  checkWinCondition(r2, d)

\* Mutant: a flap is not refused for a dead player.
handleFlapDead(r, id) ==
    LET i == IndexOf(r.players, id)
    IN  IF i = 0 THEN r
        ELSE IF r.phase # "playing" THEN r
        ELSE [r EXCEPT !.players[i].velocityY = JUMP_FORCE]

handleFlap(r, id) ==
    LET i == IndexOf(r.players, id)
    IN  IF i = 0 \/ ~r.players[i].alive THEN r
        ELSE IF r.phase # "playing" THEN r
        ELSE [r EXCEPT !.players[i].velocityY = JUMP_FORCE]

onDispose(r) == [clearCountdown(stopGameLoop(r)) EXCEPT !.disposed = TRUE]

\* -------------------------------------------------------------- the system
\* The random samples a pipe is generated from in Spec: one hole in the
\* middle holding the item, or two holes at the ends of the range and no item.
Draws ==
    {DrawOf(0, <<50>>, <<50>>, <<50>>, 50, 0, 0),
     DrawOf(40, <<0>>, <<99>>, <<50>>, 99, 99, 0)}

RosterIds == {players[i].id : i \in 1..Len(players)}

\* While a round is played the clients' joins, leaves and flaps arrive at
\* these times after the round start (in ticks of the game loop): before
\* the first tick, after the first contact of an idle bird with the floor,
\* and late in the round.
ArrivalTicks == {0, 42, 150}
Arrives ==
    phase = "playing" => \E k \in ArrivalTicks : now - startTime = k * deltaTime

Init ==
    /\ debug \in BOOLEAN
    /\ now = Epoch
    /\ phase = "waiting"
    /\ countdown = DefaultCountdown
    /\ startTime = 0
    /\ gameTime = 0
    /\ playersAlive = 0
    /\ totalPlayers = 0
    /\ winnerId = NoWinner
    /\ players = <<>>
    /\ pipes = <<>>
    /\ gameLoopInterval = FALSE
    /\ countdownInterval = "null"
    /\ lastPipeX = InitialLastPipeX
    /\ gameLoops = 0
    /\ countdownTimers = 0
    /\ resetTimers = 0
    /\ disposed = FALSE
    /\ phaseLog = <<>>
    /\ nextSession = 1
    /\ ticks = 0
    /\ flaps = 0

\* The samples handed to a handler: a draw when it generates a pipe, and
\* otherwise one fixed draw that nothing reads.
DrawsFrom(draws, generates) ==
    IF generates THEN draws ELSE {DrawOf(0, <<0>>, <<0>>, <<0>>, 0, 0, 0)}
DrawsIf(generates) == DrawsFrom(Draws, generates)
StartsRound(n) ==
    phase = "waiting" /\ debug /\ n >= MIN_PLAYERS_TO_START(debug)
SpawnsPipe ==
    phase = "playing" /\ lastPipeX - GAME_SPEED < SpawnThresholdBase - PIPE_DISTANCE

\* A client joins; the samples of a pipe the join generates are from draws.
JoinWith(draws) ==
    /\ ~disposed
    /\ Arrives
    /\ nextSession <= MaxJoins
    /\ Len(players) < MAX_PLAYERS
    /\ \E rnd \in DrawsFrom(draws, StartsRound(Len(players) + 1)) :
           Becomes(onJoin(Room, SessionId(nextSession), debug, now, rnd))
    /\ nextSession' = nextSession + 1
    /\ UNCHANGED <<debug, now, ticks, flaps>>

OnJoin == JoinWith(Draws)

OnLeave ==
    /\ Arrives
    /\ \E id \in RosterIds : Becomes(onLeave(Room, id, debug))
    /\ UNCHANGED <<debug, now, nextSession, ticks, flaps>>

Flap ==
    /\ Arrives
    /\ flaps < MaxFlaps
    /\ \E id \in RosterIds : Becomes(handleFlap(Room, id))
    /\ flaps' = IF phase = "playing" THEN flaps + 1 ELSE flaps
    /\ UNCHANGED <<debug, now, nextSession, ticks>>

Ready ==
    /\ players # <<>>
    /\ \E rnd \in DrawsIf(StartsRound(Len(players))) :
           Becomes(checkStartConditions(Room, debug, now, rnd))
    /\ UNCHANGED <<debug, now, nextSession, ticks, flaps>>

\* One firing of the game-loop interval, deltaTime after the last one, with
\* the samples of a new pipe taken from draws and at most bound firings.
TickWith(draws, bound) ==
    /\ gameLoops > 0
    /\ ticks < bound
    /\ now' = now + deltaTime
    /\ \E rnd \in DrawsFrom(draws, SpawnsPipe) :
           Becomes(update(Room, debug, now', rnd))
    /\ ticks' = ticks + 1
    /\ UNCHANGED <<debug, nextSession, flaps>>

Tick == TickWith(Draws, MaxTicks)

\* One firing of the countdown interval, a second after the last one.
CountdownFire ==
    /\ countdownTimers > 0
    /\ now' = now + CountdownTickMs
    /\ \E rnd \in DrawsIf(countdown <= 1) : Becomes(countdownTick(Room, now', rnd))
    /\ UNCHANGED <<debug, nextSession, ticks, flaps>>

\* The timeout set by endGame fires, resetDelay after it was set.
ResetFire ==
    /\ resetTimers > 0
    /\ now' = now + resetDelay(debug)
    /\ \E rnd \in DrawsIf(debug /\ players # <<>>) :
           Becomes(resetRoom([Room EXCEPT !.resetTimers = @ - 1],
                             debug, now', rnd))
    /\ UNCHANGED <<debug, nextSession, ticks, flaps>>

\* The framework disposes of the room when its last client has left (or
\* never came); no client joins a disposed room.
Dispose ==
    /\ ~disposed
    /\ players = <<>>
    /\ Becomes(onDispose(Room))
    /\ UNCHANGED <<debug, now, nextSession, ticks, flaps>>

Next ==
    \/ OnJoin
    \/ OnLeave
    \/ Flap
    \/ Ready
    \/ Tick
    \/ CountdownFire
    \/ ResetFire
    \/ Dispose

Spec == Init /\ [][Next]_vars

\* The timers of the runtime fire: the reset timeout of a finished round and
\* the countdown interval, for as long as it is not cleared.
FairSpec == Spec /\ WF_vars(ResetFire) /\ WF_vars(CountdownFire)

\* ------------------------------------------------------------ long flights
\* FlightSpec follows rounds of the debug mode for longer than Spec does.
\* The client of the first session keeps its bird in the air: it flaps
\* whenever the bird falls through the middle of the screen, and the flap is
\* handled before the next tick.  The other clients never flap.  The pipes
\* spawned during a round have one hole around that flight path, with or
\* without the item.
FlightDraws ==
    {DrawOf(0, <<50>>, <<50>>, <<50>>, 50, 0, 0),
     DrawOf(0, <<50>>, <<50>>, <<50>>, 50, 99, 0)}

Pilots == {SessionId(1)}

PilotWants(i) ==
    /\ phase = "playing"
    /\ players[i].id \in Pilots
    /\ players[i].alive
    /\ players[i].y >= CenterY
    /\ players[i].velocityY > 0

PilotFlap ==
    /\ \E i \in 1..Len(players) :
           PilotWants(i) /\ Becomes(handleFlap(Room, players[i].id))
    /\ UNCHANGED <<debug, now, nextSession, ticks, flaps>>

FlightTick ==
    /\ \A i \in 1..Len(players) : ~PilotWants(i)
    /\ TickWith(FlightDraws, MaxFlightTicks)

FlightInit == Init /\ debug

FlightNext ==
    \/ OnJoin
    \/ OnLeave
    \/ PilotFlap
    \/ FlightTick
    \/ ResetFire

FlightSpec == FlightInit /\ [][FlightNext]_vars

\* ---------------------------------------------------------- pipe generation
\* PipeSpec generates the first pipe of a round of the debug mode from a
\* wide set of samples.  A stream of y samples is what the attempts of one
\* hole read: Retry(n, bad, good) has n samples bad before the sample good.
Retry(n, bad, good) == [k \in 1..(n + 1) |-> IF k <= n THEN bad ELSE good]

FirstSamples == {<<0>>, <<5>>, <<9>>, <<10>>, <<50>>, <<90>>, <<95>>, <<99>>}
RetrySamples ==
    FirstSamples
    \cup {<<50, 50, 99>>, <<50, 50, 0>>,
          Retry(MaxAttempts - 2, 50, 99), Retry(MaxAttempts - 1, 50, 99)}

PipeDraws ==
    {[holes |-> h, ys |-> <<y1, y2, y3>>, sizes |-> sz, item |-> it, pick |-> pk] :
        h \in {0, 40, 99}, y1 \in FirstSamples, y2 \in RetrySamples,
        y3 \in {<<0>>, <<99>>, <<50, 99>>},
        sz \in {<<0, 99, 50>>, <<99, 0, 50>>},
        it \in {0, 49, 50}, pk \in {0, 50, 99}}

PipeJoin == JoinWith(PipeDraws)

PipeInit == Init /\ debug

PipeNext == PipeJoin

PipeSpec == PipeInit /\ [][PipeNext]_vars

\* ------------------------------------------------------------ late joiners
\* Rounds of the debug build that clients still join after the first bird
\* is out: an idle bird loses its second life 160 ticks after the start of
\* the round, so a join arrives after that as well.
MaxLateJoins == 3
MaxLateTicks == 210
LateArrivalTicks == {0, 42, 165}
LateDraws == {DrawOf(0, <<50>>, <<50>>, <<50>>, 50, 0, 0)}

LateJoin ==
    /\ ~disposed
    /\ phase = "playing" =>
          \E k \in LateArrivalTicks : now - startTime = k * deltaTime
    /\ nextSession <= MaxLateJoins
    /\ Len(players) < MAX_PLAYERS
    /\ \E rnd \in DrawsFrom(LateDraws, StartsRound(Len(players) + 1)) :
           Becomes(onJoin(Room, SessionId(nextSession), debug, now, rnd))
    /\ nextSession' = nextSession + 1
    /\ UNCHANGED <<debug, now, ticks, flaps>>

LateTick == TickWith(LateDraws, MaxLateTicks)

LateInit == Init /\ debug
LateNext == LateJoin \/ OnLeave \/ LateTick \/ ResetFire
LateSpec == LateInit /\ [][LateNext]_vars

\* ------------------------------------------------------------- the course
\* Rounds of the debug build flown against a first pipe whose hole is in the
\* middle and holds the item, or ends just below mid-height, or begins just
\* below mid-height and holds the item, or that has a hole at either end of
\* the range with the item in the lower one; the client of the first session
\* either never flaps or sends a flap before every tick, which takes its bird
\* to the ceiling in 64 ticks.
MaxCourseTicks == 215
CourseDraws ==
    {DrawOf(0, <<50>>, <<50>>, <<50>>, 50, 0, 0),
     DrawOf(0, <<46>>, <<46>>, <<46>>, 0, 99, 0),
     DrawOf(0, <<84>>, <<84>>, <<84>>, 0, 0, 0),
     DrawOf(40, <<0>>, <<99>>, <<50>>, 0, 0, 99)}
Holder == SessionId(1)

CourseJoin == JoinWith(CourseDraws)

HoldFlap ==
    /\ phase = "playing"
    /\ flaps = ticks
    /\ flaps < MaxCourseTicks
    /\ Becomes(handleFlap(Room, Holder))
    /\ flaps' = flaps + 1
    /\ UNCHANGED <<debug, now, nextSession, ticks>>

CourseTick ==
    /\ flaps = 0 \/ flaps = ticks + 1
    /\ TickWith(LateDraws, MaxCourseTicks)

CourseInit == Init /\ debug
CourseNext == CourseJoin \/ HoldFlap \/ CourseTick
CourseSpec == CourseInit /\ [][CourseNext]_vars

\* ------------------------------------------------------------------ claims
AliveSet == {i \in 1..Len(players) : players[i].alive}
LastOf(log) == log[Len(log)]
BecamePlaying == phaseLog # <<>> /\ LastOf(phaseLog) = "playing"
BecameFinished == phaseLog # <<>> /\ LastOf(phaseLog) = "finished"

\* C1: after every handler playersAlive is the number of roster players whose
\* alive flag is true.
C1_AliveCount == playersAlive = Cardinality(AliveSet)

\* A round goes on after one of its players was fully eliminated.
C1_Witness ==
    /\ phase = "playing"
    /\ \E i \in 1..Len(players) : ~players[i].alive /\ players[i].lives = 0
    /\ playersAlive >= 1

\* C2: every assignment to the phase, inside a handler and from one handler
\* to the next, follows waiting -> countdown -> playing -> finished -> waiting.
PhaseEdges ==
    {<<"waiting", "countdown">>, <<"countdown", "playing">>,
     <<"playing", "finished">>, <<"finished", "waiting">>}
C2_PhaseCycle ==
    [][LET path == <<phase>> \o phaseLog'
       IN  /\ phase' = LastOf(path)
           /\ \A k \in 1..(Len(path) - 1) : <<path[k], path[k + 1]>> \in PhaseEdges]_vars

\* In debug mode the reset of a finished round went on into a new round.
C2_Witness == phaseLog = <<"waiting", "countdown", "playing">>

\* C3: a waiting room holds fewer players than the minimum, so a ready
\* message (checkStartConditions) changes nothing.
C3_WaitingBelowMinimum ==
    /\ phase = "waiting" => Len(players) < MIN_PLAYERS_TO_START(debug)
    /\ \A rnd \in Draws :
           checkStartConditions([Room EXCEPT !.phaseLog = phaseLog],
                                debug, now, rnd)
           = [Room EXCEPT !.phaseLog = phaseLog]

\* After a round the room waits again with a player still in it.
C3_Witness == phase = "waiting" /\ players # <<>> /\ ticks > 0

\* C4: when the phase becomes playing every player holds the start values,
\* the only pipe is a fresh one at the spawn x and the game loop runs.
C4_RoundStart ==
    BecamePlaying =>
        /\ \A i \in 1..Len(players) :
               /\ players[i].y = CenterY
               /\ players[i].velocityY = 0
               /\ players[i].rotation = 0
               /\ players[i].score = 0
               /\ players[i].alive
               /\ players[i].vision = FullVision
               /\ players[i].visionDegradationMultiplier = UnitMultiplier
               /\ players[i].lives = STARTING_LIVES
               /\ players[i].lastHitTime = 0
        /\ Len(pipes) = 1
        /\ pipes[1].x = SpawnX
        /\ ~pipes[1].passed
        /\ gameLoopInterval
        /\ gameLoops = 1

\* A round starts after one that lasted until the idle birds had hit the
\* floor, with a player who has been in the room since the first join.
C4_Witness ==
    /\ BecamePlaying
    /\ \E i \in 1..Len(players) : players[i].id = SessionId(1)
    /\ gameTime >= 42 * deltaTime

\* C5: a tick or a leave that brings the alive players of a round to the end
\* threshold finishes the round in that handler, and no game loop is
\* scheduled while the phase is not playing.
C5_RoundEnds ==
    /\ [][(Tick \/ OnLeave) /\ phase = "playing"
          /\ Cardinality({i \in 1..Len(players') : players'[i].alive})
             <= minPlayersToEnd(debug)
          => phase' = "finished" /\ gameLoops' = 0 /\ ~gameLoopInterval']_vars
    /\ [](phase # "playing" => gameLoops = 0 /\ ~gameLoopInterval)

\* The round was finished by the tick in which a player was eliminated.
C5_Witness ==
    /\ BecameFinished
    /\ gameLoops = 0
    /\ \E i \in 1..Len(players) : ~players[i].alive /\ players[i].eliminatedAt = now

\* C6: when the phase becomes finished, either one player holds rank 1, is
\* the only alive player and is the winner, or nobody is alive and there is
\* no winner.
C6_Winner ==
    BecameFinished =>
        \/ /\ Cardinality(AliveSet) = 1
           /\ {i \in 1..Len(players) : players[i].rank = 1} = AliveSet
           /\ \A i \in AliveSet : winnerId = players[i].id
        \/ /\ AliveSet = {}
           /\ winnerId = NoWinner

\* The round ended with a winner and an eliminated player.
C6_Witness ==
    /\ BecameFinished
    /\ winnerId # NoWinner
    /\ \E i \in 1..Len(players) : ~players[i].alive

\* C7 (as claimed): a join during a round does not add to playersAlive.
C7_JoinerSpectates ==
    [][OnJoin /\ phase = "playing" => playersAlive' = playersAlive]_vars

\* C8 (as claimed): after a reset that leaves the room waiting the pipes are
\* empty and every player has score 0, is alive and has STARTING_LIVES lives.
C8_ResetRestores ==
    phaseLog = <<"waiting">> =>
        /\ pipes = <<>>
        /\ \A i \in 1..Len(players) :
               /\ players[i].score = 0
               /\ players[i].alive
               /\ players[i].lives = STARTING_LIVES

\* C9: a finished phase has exactly one reset pending and is left; the reset
\* clears the winner and the pipes and leaves the room waiting below the
\* minimum, and otherwise in a new countdown or, in debug mode, a new round.
C9_Reset ==
    /\ [](resetTimers = IF phase = "finished" THEN 1 ELSE 0)
    /\ [][ResetFire =>
            /\ phase = "finished"
            /\ winnerId' = NoWinner
            /\ IF Len(players) < MIN_PLAYERS_TO_START(debug)
               THEN phase' = "waiting" /\ pipes' = <<>>
               ELSE IF debug
               THEN phase' = "playing" /\ Len(pipes') = 1 /\ pipes'[1].x = SpawnX
               ELSE phase' = "countdown" /\ pipes' = <<>>
                    /\ countdownTimers' = 1]_vars
    /\ (phase = "finished" ~> phase # "finished")

\* A reset restarted the countdown with the players already in the room.
C9_Witness ==
    /\ phaseLog = <<"waiting", "countdown">>
    /\ Len(players) >= 2
    /\ winnerId = NoWinner

\* C10: lives is never negative, and it does not increase for a player in a
\* step that neither starts a round nor resets the room.
C10_Lives ==
    /\ [](\A i \in 1..Len(players) : players[i].lives >= 0)
    /\ [][\A i \in 1..Len(players) : \A j \in 1..Len(players') :
            players[i].id = players'[j].id
            => \/ players'[j].lives <= players[i].lives
               \/ \E k \in 1..Len(phaseLog') :
                      phaseLog'[k] \in {"playing", "waiting"}]_vars

\* A player lost every life.
C10_Witness == \E i \in 1..Len(players) : players[i].lives = 0

\* The synchronised state of the room (BattleRoyaleState).
RoomState ==
    <<phase, countdown, startTime, gameTime, playersAlive, totalPlayers,
      winnerId, players, pipes>>

\* C14 (as claimed): after onDispose no timer of the room fires, so no
\* handler changes the state of a disposed room.
C14_DisposedIsQuiet == [][disposed => UNCHANGED RoomState]_vars

\* C20 (as claimed): when the phase becomes playing the roster holds at
\* least MIN_PLAYERS_TO_START players.
C20_StartsWithMinimum ==
    BecamePlaying => Len(players) >= MIN_PLAYERS_TO_START(debug)

\* C18: a firing of the countdown timer happens in phase countdown and takes
\* exactly 1 off the value, the round starts in the firing that brings it to
\* 0, the value is never negative, and every countdown phase of a room that
\* is not disposed leads to playing.
C18_Countdown ==
    /\ [][CountdownFire =>
            /\ phase = "countdown"
            /\ countdown' = countdown - 1
            /\ phase' = IF countdown' = 0 THEN "playing" ELSE "countdown"]_vars
    /\ [](countdown >= 0)
    /\ (phase = "countdown" ~> (phase = "playing" \/ disposed))

\* The countdown ran down to the round start after a player had left.
C18_Witness ==
    /\ ~debug
    /\ phaseLog = <<"playing">>
    /\ countdown = 0
    /\ Len(players) < MIN_PLAYERS_TO_START(debug)

\* Every session id the framework may hand out, in the roster or not.
AllSessions == {SessionId(n) : n \in 1..Len(SessionNames)}

\* C15: in every reachable state a flap from any session sets the sender's
\* velocityY to the jump force and changes nothing else when the sender is in
\* the roster, alive and the phase is playing, and otherwise leaves the room
\* as it is.
C15_FlapFrame ==
    \A id \in AllSessions :
        LET i == IndexOf(players, id)
            after == handleFlap(Room, id)
        IN  IF i # 0 /\ players[i].alive /\ phase = "playing"
            THEN /\ after.players[i].velocityY = JUMP_FORCE
                 /\ [after EXCEPT !.players[i].velocityY = players[i].velocityY]
                    = Room
            ELSE after = Room

\* A flap was handled in the middle of a round: the sender has the jump
\* force and a second player has not.
C15_Witness ==
    /\ phase = "playing"
    /\ now > startTime
    /\ flaps > 0
    /\ \E i, j \in 1..Len(players) :
           /\ players[i].velocityY = JUMP_FORCE
           /\ players[j].velocityY # JUMP_FORCE

\* A firing of the game loop.
TickStep == ticks' = ticks + 1

\* C17: a tick of a round in which the tracked spawn position gets below
\* 1 - PIPE_DISTANCE appends exactly one pipe, at the spawn x, and sets the
\* tracker to the spawn x; any other tick appends none and moves the tracker
\* by the game speed.
C17_SpawnPerCrossing ==
    [][TickStep /\ phase = "playing" =>
         LET staying == {k \in 1..Len(pipes) :
                           ~(pipes[k].x - GAME_SPEED < OffScreenX)}
         IN  IF lastPipeX - GAME_SPEED < SpawnThresholdBase - PIPE_DISTANCE
             THEN /\ Len(pipes') = Cardinality(staying) + 1
                  /\ pipes'[Len(pipes')].x = SpawnX
                  /\ lastPipeX' = SpawnX
             ELSE /\ Len(pipes') = Cardinality(staying)
                  /\ lastPipeX' = lastPipeX - GAME_SPEED]_vars

\* The tick that crossed the threshold has appended the second pipe of a
\* round.
C17_Witness ==
    /\ phase = "playing"
    /\ now > startTime
    /\ Len(pipes) = 2
    /\ pipes[2].x = SpawnX
    /\ lastPipeX = SpawnX

\* C19: in a tick a pipe that was passed stays passed; the passing point goes
\* to a player only in the tick in which a pipe becomes passed, to one player
\* and as one point, and every alive player before that player in the roster
\* order was hit in that tick; outside the ticks the pipes only change by
\* being cleared for a reset or a round start.
C19_PassPoint ==
    /\ [][TickStep /\ phase = "playing" =>
            LET Same(k, j) == pipes'[j].x = pipes[k].x - GAME_SPEED
                newly == {k \in 1..Len(pipes) :
                            /\ ~pipes[k].passed
                            /\ \E j \in 1..Len(pipes') :
                                   Same(k, j) /\ pipes'[j].passed}
                Point(i) == (players'[i].score - players[i].score) % ItemBonus
                scorers == {i \in 1..Len(players) : Point(i) > 0}
            IN  /\ \A k \in 1..Len(pipes) : \A j \in 1..Len(pipes') :
                       Same(k, j) /\ pipes[k].passed => pipes'[j].passed
                /\ Cardinality(newly) <= 1
                /\ Cardinality(scorers) = Cardinality(newly)
                /\ \A i \in scorers :
                       /\ Point(i) = 1
                       /\ \A j \in 1..(i - 1) :
                              players[j].alive => players'[j].lastHitTime = now']_vars
    /\ [][~TickStep =>
            \/ pipes' = pipes
            \/ \E k \in 1..Len(phaseLog') :
                   phaseLog'[k] \in {"waiting", "playing"}]_vars

\* Two alive players have crossed a pipe in this tick, neither was hit in
\* it, and the first in roster order has the point while the second has not.
C19_Witness ==
    /\ phase = "playing"
    /\ pipes # <<>>
    /\ pipes[1].passed
    /\ pipes[1].x = BirdX - GAME_SPEED
    /\ \E i, j \in 1..Len(players) :
           /\ i < j
           /\ players[i].alive /\ players[j].alive
           /\ players[i].lastHitTime # now /\ players[j].lastHitTime # now
           /\ players[i].score % ItemBonus = 1
           /\ players[j].score % ItemBonus = 0

\* C11: the vision of every player is at least MIN_VISION and at most 1.0.
C11_VisionClamp ==
    \A i \in 1..Len(players) :
        MIN_VISION <= players[i].vision /\ players[i].vision <= FullVision

\* A player who has lost a life and was put back in the middle has flown
\* for more ticks than the vision takes to go down to the minimum, and the
\* vision is held there.
C11_Witness ==
    /\ phase = "playing"
    /\ (now - startTime) \div deltaTime
       > (FullVision - MIN_VISION) \div VISION_DEGRADATION_RATE
    /\ \E i \in 1..Len(players) :
           /\ players[i].alive
           /\ players[i].lives < STARTING_LIVES
           /\ players[i].visionDegradationMultiplier = UnitMultiplier
           /\ players[i].vision = MIN_VISION

\* The ids in the itemCollectedBy of hole h of pipe k of ps, as a set.
Collectors(ps, k, h) ==
    {ps[k].holes[h].itemCollectedBy[c] :
        c \in 1..Len(ps[k].holes[h].itemCollectedBy)}

\* C12: the itemCollectedBy of a hole never holds an id twice, and a tick
\* gives a player the score bonus, the full vision and the multiplier
\* increase once for each hole whose itemCollectedBy the player's id enters
\* in that tick, and nothing of the three for a hole it is already in.
C12_CollectOnce ==
    /\ [](\A k \in 1..Len(pipes) : \A h \in 1..Len(pipes[k].holes) :
             Cardinality(Collectors(pipes, k, h))
             = Len(pipes[k].holes[h].itemCollectedBy))
    /\ [][TickStep /\ phase = "playing" =>
            \A i \in 1..Len(players) :
                LET id == players[i].id
                    gained ==
                        {kh \in (1..Len(pipes)) \X (1..MAX_HOLES_PER_PIPE) :
                            /\ kh[2] <= Len(pipes[kh[1]].holes)
                            /\ id \notin Collectors(pipes, kh[1], kh[2])
                            /\ \E j \in 1..Len(pipes') :
                                   /\ pipes'[j].x = pipes[kh[1]].x - GAME_SPEED
                                   /\ id \in Collectors(pipes', j, kh[2])}
                    n == Cardinality(gained)
                IN  /\ players'[i].visionDegradationMultiplier
                       = players[i].visionDegradationMultiplier
                         + n * DEGRADATION_MULTIPLIER_INCREASE
                    /\ (players'[i].score - players[i].score) \div ItemBonus = n
                    /\ IF n > 0
                       THEN players'[i].vision = FullVision
                       ELSE players'[i].vision <= players[i].vision]_vars

\* A player has flown on inside the hole for ten ticks after collecting its
\* item, and has the one bonus and the one multiplier increase.
C12_Witness ==
    \E i \in 1..Len(players) : \E k \in 1..Len(pipes) :
        \E h \in 1..Len(pipes[k].holes) :
            /\ Overlaps(pipes[k])
            /\ pipes[k].x <= BirdX - 10 * GAME_SPEED
            /\ InHole(players[i], pipes[k].holes[h])
            /\ players[i].id \in Collectors(pipes, k, h)
            /\ players[i].score \div ItemBonus = 1
            /\ players[i].visionDegradationMultiplier
               = UnitMultiplier + DEGRADATION_MULTIPLIER_INCREASE
            /\ players[i].vision < FullVision

\* C16: in every pipe any two holes have their centres at least
\* MIN_HOLE_SPACING apart; a hole for which the attempts found no such
\* position is not in the pipe.
C16_HoleSpacing ==
    \A k \in 1..Len(pipes) : \A g, h \in 1..Len(pipes[k].holes) :
        g # h =>
            Abs(pipes[k].holes[g].y - pipes[k].holes[h].y) >= MIN_HOLE_SPACING

\* A pipe of three requested holes has two: the second hole has the size
\* drawn for the third request, so the second request was given up after
\* its attempts and the third found a position.
C16_Witness ==
    \E k \in 1..Len(pipes) :
        /\ Len(pipes[k].holes) = 2
        /\ pipes[k].holes[2].size = NewHole(0, 50).size
        /\ Abs(pipes[k].holes[1].y - pipes[k].holes[2].y) >= MIN_HOLE_SPACING

\* Player p, moved by a tick, is below the floor, or is in the column of one
\* of the pipes ps and inside none of its holes.
Contact(p, ps) ==
    LET q == Integrate(p)
        c == [q EXCEPT !.y = Max(CeilingY, q.y)]
    IN  \/ q.y > FloorY
        \/ \E k \in 1..Len(ps) : Overlaps(ps[k]) /\ HoleOf(c, ps[k]) = 0

\* The time of the last hit a player took, in this round or in an earlier
\* one: the last hit of a round is kept in eliminatedAt.
LastHit(p) == Max(p.lastHitTime, p.eliminatedAt)

\* C13 (as claimed): a player loses a life only when the invulnerability
\* time has gone by since the last hit that player took.
C13_WindowSinceAnyHit ==
    [][\A i \in 1..Len(players) : \A j \in 1..Len(players') :
          players[i].id = players'[j].id /\ players'[j].lives < players[i].lives
          => now' - LastHit(players[i]) >= RESPAWN_INVULNERABILITY_TIME]_vars

\* C13 (amended): within a round, where lastHitTime is the time of the
\* player's last hit (the round start clears it), a player loses a life
\* only when the invulnerability time has gone by since then, one life at a
\* time, and a floor or pipe contact of an alive player after that time does
\* cost a life and restarts the time.
C13_Window ==
    [][\A i \in 1..Len(players) : \A j \in 1..Len(players') :
          players[i].id = players'[j].id =>
              /\ players'[j].lives < players[i].lives
                 => /\ now' - players[i].lastHitTime
                       >= RESPAWN_INVULNERABILITY_TIME
                    /\ players'[j].lives = players[i].lives - 1
              /\ ( /\ TickStep /\ phase = "playing" /\ players[i].alive
                   /\ Contact(players[i], pipes')
                   /\ now' - players[i].lastHitTime
                      >= RESPAWN_INVULNERABILITY_TIME )
                 => /\ players'[j].lives = players[i].lives - 1
                    /\ players'[j].lastHitTime = now']_vars

\* A player who was hit lies on the floor inside the invulnerability time
\* and still has the life.
C13_Witness ==
    /\ phase = "playing"
    /\ \E i \in 1..Len(players) :
           /\ players[i].alive
           /\ players[i].lives = STARTING_LIVES - 1
           /\ players[i].y = FloorY
           /\ now - players[i].lastHitTime < RESPAWN_INVULNERABILITY_TIME
           /\ now - players[i].lastHitTime > RESPAWN_INVULNERABILITY_TIME \div 2

\* C21: before disposal the timers follow the phase in every reachable state:
\* the tick loop is scheduled exactly in phase playing, the countdown ticker
\* exactly in phase countdown, a reset timer is pending exactly in phase
\* finished, and never two of one kind are scheduled at once.
C21_TimersFollowPhase ==
    ~disposed =>
        /\ gameLoops = (IF phase = "playing" THEN 1 ELSE 0)
        /\ gameLoopInterval = (phase = "playing")
        /\ countdownTimers = (IF phase = "countdown" THEN 1 ELSE 0)
        /\ (countdownInterval = "live") = (phase = "countdown")
        /\ resetTimers = (IF phase = "finished" THEN 1 ELSE 0)

\* A second round's countdown is running: the loop and the reset timer of the
\* first round are gone and one ticker is live.
C21_Witness ==
    /\ ~disposed
    /\ phase = "countdown"
    /\ ticks > 0
    /\ countdownTimers = 1
    /\ gameLoops = 0
    /\ resetTimers = 0

\* The players a tick step removes from the living.
FallenInStep ==
    {i \in 1..Len(players) : players[i].alive /\ ~players'[i].alive}

\* The dead players of the running or finished round that went before i: at
\* an earlier time, or in the same tick and earlier in the roster.
FellBefore(i) ==
    {j \in 1..Len(players) :
        /\ ~players[j].alive
        /\ \/ players[j].eliminatedAt < players[i].eliminatedAt
           \/ players[j].eliminatedAt = players[i].eliminatedAt /\ j < i}

\* Every session that ever joined is in the roster and the roster is just
\* large enough to start a round: nobody joined or left since the round began.
ClosedRound ==
    /\ phase \in {"playing", "finished"}
    /\ Len(players) = nextSession - 1
    /\ Len(players) = MIN_PLAYERS_TO_START(debug)

\* C22: a player whose last life is taken in a tick gets alive = false,
\* eliminatedAt = now and, as rank, the number of players alive just before
\* that removal (the players removed earlier in the same tick not counted),
\* and playersAlive is the recomputed count; so in a round of N players that
\* nobody joined or left, the k-th player eliminated holds rank N - k + 1.
C22_RankOnElimination ==
    /\ [][TickStep =>
            /\ \A i \in FallenInStep :
                  /\ players'[i].lives = 0
                  /\ players[i].lives = 1
                  /\ players'[i].eliminatedAt = now'
                  /\ players'[i].rank =
                        Cardinality(AliveSet)
                        - Cardinality({j \in FallenInStep : j < i})
            /\ FallenInStep # {} =>
                  playersAlive' =
                     Cardinality(AliveSet) - Cardinality(FallenInStep)]_vars
    /\ [](ClosedRound =>
            \A i \in 1..Len(players) :
                ~players[i].alive =>
                    players[i].rank
                       = Len(players) - (Cardinality(FellBefore(i)) + 1) + 1)

\* Two players of a closed round lost their last life in the same tick: the
\* first in the roster has rank 2 and the second rank 1.
C22_Witness ==
    /\ ClosedRound
    /\ Len(players) = 2
    /\ AliveSet = {}
    /\ players[1].eliminatedAt = now
    /\ players[2].eliminatedAt = now
    /\ players[1].rank = 2
    /\ players[2].rank = 1
    /\ playersAlive = 0

\* C23: a hit on an alive player with lives >= 2 takes exactly one life, sets
\* lastHitTime to the current time and puts the bird at y = 0.5 with
\* velocityY = 0 and rotation = 0; alive, rank, eliminatedAt, score and
\* playersAlive (and all the rest of the room) stay as they were.
C23_HitWithLivesLeft ==
    \A i \in 1..Len(players) :
        players[i].alive /\ players[i].lives >= 2 =>
            LET after == eliminatePlayer(Room, i, now)
                p == after.players[i]
            IN  /\ p.lives = players[i].lives - 1
                /\ p.lastHitTime = now
                /\ p.y = CenterY
                /\ p.velocityY = 0
                /\ p.rotation = 0
                /\ p.alive
                /\ p.rank = players[i].rank
                /\ p.eliminatedAt = players[i].eliminatedAt
                /\ p.score = players[i].score
                /\ after.playersAlive = playersAlive
                /\ after = [Room EXCEPT !.players[i] =
                              [players[i] EXCEPT
                                  !.lives = @ - 1, !.lastHitTime = now,
                                  !.y = CenterY, !.velocityY = 0,
                                  !.rotation = 0]]

\* A bird that holds the points of a pickup has just been hit by the pipe
\* below the hole: one life is left, it is back at mid-height and at rest,
\* and it kept its points.
C23_Witness ==
    /\ phase = "playing"
    /\ \E i \in 1..Len(players) :
          /\ players[i].alive
          /\ players[i].lives = STARTING_LIVES - 1
          /\ players[i].lastHitTime = now
          /\ players[i].y = CenterY
          /\ players[i].velocityY = 0
          /\ players[i].rotation = 0
          /\ players[i].score > 0
          /\ players[i].rank = 0
          /\ playersAlive = Cardinality(AliveSet)

\* The players out of the round that is played or just finished: the reset
\* and the join make a player alive, so a dead one fell in this round.
Fallen == {i \in 1..Len(players) : ~players[i].alive}

\* C24: within one round the ranks given to the eliminated players are
\* pairwise distinct, whatever joins and leaves arrive between the ticks.
C24_DistinctRanks ==
    phase \in {"playing", "finished"} =>
        \A i, j \in Fallen : i # j => players[i].rank # players[j].rank

\* C25: no player with alive = false holds rank 1; in particular a round that
\* finished with no winner left no roster player with rank 1.
C25_NoDeadFirst ==
    /\ \A i \in 1..Len(players) : ~players[i].alive => players[i].rank # 1
    /\ phase = "finished" /\ winnerId = NoWinner =>
          \A i \in 1..Len(players) : players[i].rank # 1

\* C26: a non-empty winnerId is the id of a player in the roster, also when
\* players leave while the phase is finished.
C26_WinnerInRoster ==
    winnerId # NoWinner => winnerId \in RosterIds

\* C27: the tick in which the tracked position of the last spawned pipe gets
\* below spawn x - PIPE_DISTANCE, and no other tick, generates a pipe and puts
\* the tracker back to the spawn x, so that the pipe before it is then
\* PIPE_DISTANCE (to within one step of the scroll) left of the new one.
C27_SpawnAtDistance ==
    [][TickStep /\ phase = "playing" =>
         LET crossed == lastPipeX - GAME_SPEED < SpawnX - PIPE_DISTANCE
             spawned == /\ lastPipeX' = SpawnX
                        /\ pipes' # <<>>
                        /\ pipes'[Len(pipes')].x = SpawnX
         IN  /\ crossed <=> spawned
             /\ spawned /\ Len(pipes') >= 2 =>
                   LET gap == SpawnX - pipes'[Len(pipes') - 1].x
                   IN  gap >= PIPE_DISTANCE /\ gap <= PIPE_DISTANCE + GAME_SPEED]_vars

\* The pipes of the current state that a tick keeps, in their order, as the
\* sequence of their positions in pipes.
RECURSIVE StayingFrom(_)
StayingFrom(k) ==
    IF k > Len(pipes) THEN <<>>
    ELSE IF pipes[k].x - GAME_SPEED < OffScreenX THEN StayingFrom(k + 1)
    ELSE <<k>> \o StayingFrom(k + 1)

\* C28: a tick of a round moves every pipe it found by the game speed, once;
\* it removes exactly the pipes that are then left of -0.1; the pipes that
\* stay keep their order and their holes; a pipe generated in the tick stands
\* at the spawn x, behind them, and is not moved.
C28_ScrollAndDrop ==
    [][TickStep /\ phase = "playing" =>
         LET staying == StayingFrom(1)
             n == Len(staying)
         IN  /\ Len(pipes') \in {n, n + 1}
             /\ \A m \in 1..n :
                   /\ m <= Len(pipes')
                   /\ pipes'[m].x = pipes[staying[m]].x - GAME_SPEED
                   /\ ~(pipes'[m].x < OffScreenX)
                   /\ Len(pipes'[m].holes) = Len(pipes[staying[m]].holes)
                   /\ \A h \in 1..Len(pipes'[m].holes) :
                         /\ pipes'[m].holes[h].y = pipes[staying[m]].holes[h].y
                         /\ pipes'[m].holes[h].size
                               = pipes[staying[m]].holes[h].size
                         /\ pipes'[m].holes[h].hasItem
                               = pipes[staying[m]].holes[h].hasItem
             /\ Len(pipes') = n + 1 =>
                   /\ pipes'[n + 1].x = SpawnX
                   /\ ~pipes'[n + 1].passed]_vars

\* The tick after the first pipe of a round reached the left limit has
\* dropped it: the second and the third pipe are left, each one step on.
C28_Witness ==
    /\ phase = "playing"
    /\ now - startTime = ((SpawnX - OffScreenX) \div GAME_SPEED + 1) * deltaTime
    /\ Len(pipes) = 2
    /\ pipes[1].x > BirdX
    /\ pipes[1].x < pipes[2].x
    /\ pipes[2].x < SpawnX

\* C29: while a round is played there is at least one pipe, the pipes stand
\* in strictly increasing x from head to tail, and lastPipeX is the x of the
\* tail pipe.
C29_PipesInOrder ==
    phase = "playing" =>
        /\ pipes # <<>>
        /\ \A k \in 1..(Len(pipes) - 1) : pipes[k].x < pipes[k + 1].x
        /\ lastPipeX = pipes[Len(pipes)].x

\* A round that has dropped its first pipe and generated its fourth: three
\* pipes in order, the tracker on the last.
C29_Witness ==
    /\ phase = "playing"
    /\ now - startTime > ((SpawnX - OffScreenX) \div GAME_SPEED) * deltaTime
    /\ Len(pipes) = 3
    /\ pipes[1].x < pipes[2].x
    /\ pipes[2].x < pipes[3].x
    /\ lastPipeX = pipes[3].x
    /\ lastPipeX < SpawnX

\* The pipes whose width (0.08 around x) meets the column of the bird (0.03
\* on either side of x = 0.3).
AtBirdColumn ==
    {k \in 1..Len(pipes) :
        /\ pipes[k].x - PipeWidth \div 2 < BirdX + BirdSize
        /\ pipes[k].x + PipeWidth \div 2 > BirdX - BirdSize}

\* C30: at most one pipe overlaps the column of the bird at any time, so the
\* collision pass of a tick tests a player against the holes of one pipe at
\* most and at most one pipe can give its passing point.
C30_OnePipeAtBird ==
    /\ Cardinality(AtBirdColumn) <= 1
    /\ Cardinality({k \in AtBirdColumn : ~pipes[k].passed}) <= 1
    /\ \A k, j \in 1..Len(pipes) :
          k < j => pipes[j].x - pipes[k].x > PipeWidth + 2 * BirdSize

\* A pipe is at the column of the bird, passed, while the next one is on its
\* way.
C30_Witness ==
    /\ phase = "playing"
    /\ Len(pipes) >= 2
    /\ Cardinality(AtBirdColumn) = 1
    /\ \E k \in AtBirdColumn : pipes[k].passed /\ pipes[k].x < BirdX
    /\ \E i \in 1..Len(players) : players[i].alive /\ players[i].score > 0

\* Where the tick that is being taken puts player i before the pipes are
\* looked at: the position after the integration and the two boundary clamps.
HeightInTick(i) ==
    LET y == Integrate(players[i]).y
    IN  IF y > FloorY THEN FloorY ELSE IF y < CeilingY THEN CeilingY ELSE y

\* The time of the tick being taken is within the invulnerability of player i.
ShieldedInTick(i) ==
    now' - players[i].lastHitTime < RESPAWN_INVULNERABILITY_TIME

\* A bird at height y is with its whole hitbox inside the hole.
Within(y, hole) ==
    /\ 2 * (y - BirdSize) >= 2 * hole.y - hole.size
    /\ 2 * (y + BirdSize) <= 2 * hole.y + hole.size

\* The pipes that, moved by the tick being taken, stand at the column of the
\* bird.
MeetsBirdInTick ==
    {k \in 1..Len(pipes) :
        /\ pipes[k].x - GAME_SPEED - PipeWidth \div 2 < BirdX + BirdSize
        /\ pipes[k].x - GAME_SPEED + PipeWidth \div 2 > BirdX - BirdSize}

\* The ids the tick being taken adds to the collectors of some hole, and the
\* players it gives more score.
CollectsInTick(id) ==
    \E k \in 1..Len(pipes), j \in 1..Len(pipes') :
        /\ pipes'[j].x = pipes[k].x - GAME_SPEED
        /\ \E h \in 1..Len(pipes[k].holes) :
              /\ \E c \in 1..Len(pipes'[j].holes[h].itemCollectedBy) :
                    pipes'[j].holes[h].itemCollectedBy[c] = id
              /\ \A c \in 1..Len(pipes[k].holes[h].itemCollectedBy) :
                    pipes[k].holes[h].itemCollectedBy[c] # id
GainsInTick == {i \in 1..Len(players) : players'[i].score > players[i].score}

\* C31: a player who is not invulnerable, is not taken by the floor and, in
\* a tick, is at a pipe inside none of its holes takes one hit in that tick
\* and nothing else: one life less, the hit time set, no point and no pickup
\* for the player, and the pipe becomes passed in that tick only when another
\* player passes it.
C31_HitEndsThePass ==
    [][TickStep /\ phase = "playing" =>
         \A i \in AliveSet :
            \A k \in MeetsBirdInTick :
               /\ ~ShieldedInTick(i)
               /\ ~(Integrate(players[i]).y > FloorY)
               /\ \A h \in 1..Len(pipes[k].holes) :
                     ~Within(HeightInTick(i), pipes[k].holes[h])
               => /\ players'[i].lives = players[i].lives - 1
                  /\ players'[i].lastHitTime = now'
                  /\ players'[i].score = players[i].score
                  /\ players'[i].vision = Integrate(players[i]).vision
                  /\ players'[i].visionDegradationMultiplier
                        = players[i].visionDegradationMultiplier
                  /\ ~CollectsInTick(players[i].id)
                  /\ \A j \in 1..Len(pipes') :
                        /\ pipes'[j].x = pipes[k].x - GAME_SPEED
                        /\ pipes'[j].passed
                        /\ ~pipes[k].passed
                        => GainsInTick \ {i} # {}]_vars

\* A bird was hit in this tick by a pipe that is past the bird and that
\* nobody has passed: the bird has a life less and no point, and the pipe is
\* still not passed.
C31_Witness ==
    /\ phase = "playing"
    /\ \E i \in AliveSet :
          /\ players[i].lastHitTime = now
          /\ players[i].lives = STARTING_LIVES - 1
          /\ players[i].score = 0
          /\ \E k \in 1..Len(pipes) :
                /\ pipes[k].x < BirdX
                /\ pipes[k].x + PipeWidth \div 2 > BirdX - BirdSize
                /\ ~pipes[k].passed

\* Player i reaches the pipes in the tick being taken: it is alive and the
\* floor does not take a life from it first.
ReachesPipesInTick(i) ==
    /\ players[i].alive
    /\ Integrate(players[i]).y > FloorY => ShieldedInTick(i)

\* In the tick being taken player i is inside hole h of pipe k, the hole
\* holds an item that i has not collected, and the pipe is left of the bird.
TakesItemInTick(i, k, h) ==
    /\ k \in MeetsBirdInTick
    /\ Within(HeightInTick(i), pipes[k].holes[h])
    /\ pipes[k].holes[h].hasItem
    /\ \A c \in 1..Len(pipes[k].holes[h].itemCollectedBy) :
          pipes[k].holes[h].itemCollectedBy[c] # players[i].id
    /\ BirdX > pipes[k].x - GAME_SPEED

\* C32: a player inside a hole with an item it has not collected, at a pipe
\* that is strictly left of the bird, collects it in that tick, invulnerable
\* or not: its id joins the collectors of the hole, its vision is 1.0, its
\* multiplier is 0.3 higher and its score 5 higher (6 with the passing point);
\* in any other tick, so while the pipe is level with the bird or right of
\* it, the player collects nothing.
C32_Pickup ==
    [][TickStep /\ phase = "playing" =>
         \A i \in 1..Len(players) :
            ReachesPipesInTick(i) =>
               IF \E k \in 1..Len(pipes) : \E h \in 1..Len(pipes[k].holes) :
                     TakesItemInTick(i, k, h)
               THEN /\ CollectsInTick(players[i].id)
                    /\ players'[i].vision = FullVision
                    /\ players'[i].visionDegradationMultiplier
                          = players[i].visionDegradationMultiplier
                            + DEGRADATION_MULTIPLIER_INCREASE
                    /\ players'[i].score - players[i].score
                          \in {ItemBonus, ItemBonus + 1}
                    /\ players'[i].lives = players[i].lives
               ELSE /\ ~CollectsInTick(players[i].id)
                    /\ players'[i].visionDegradationMultiplier
                          = players[i].visionDegradationMultiplier
                    /\ players'[i].score - players[i].score \in {0, 1}]_vars

\* A bird that was hit less than two seconds ago has taken the item in this
\* tick: full vision, a higher multiplier, the bonus, and its id with the
\* hole.
C32_Witness ==
    /\ phase = "playing"
    /\ \E i \in AliveSet :
          /\ players[i].lastHitTime > 0
          /\ now - players[i].lastHitTime < RESPAWN_INVULNERABILITY_TIME
          /\ players[i].vision = FullVision
          /\ players[i].visionDegradationMultiplier
                = UnitMultiplier + DEGRADATION_MULTIPLIER_INCREASE
          /\ players[i].score >= ItemBonus
          /\ \E k \in 1..Len(pipes) : \E h \in 1..Len(pipes[k].holes) :
                /\ pipes[k].x < BirdX
                /\ pipes[k].holes[h].hasItem
                /\ \E c \in 1..Len(pipes[k].holes[h].itemCollectedBy) :
                      pipes[k].holes[h].itemCollectedBy[c] = players[i].id

\* In the tick being taken a pipe at the column of the bird hits player i:
\* the player is not invulnerable and inside none of the holes.
PipeHitsInTick(i) ==
    /\ ~ShieldedInTick(i)
    /\ \E k \in MeetsBirdInTick :
          \A h \in 1..Len(pipes[k].holes) :
              ~Within(HeightInTick(i), pipes[k].holes[h])

\* C33: a tick that takes an alive player above the upper boundary puts it
\* on the boundary with velocityY = 0, invulnerable or not, and one that
\* takes an invulnerable player below the lower boundary puts it on that
\* boundary with no downward velocity; in both cases the contact leaves lives
\* and alive as they were (a pipe at the ceiling can still hit); below the
\* lower boundary and not invulnerable, the player loses exactly one life.
C33_Boundaries ==
    [][TickStep /\ phase = "playing" =>
         \A i \in AliveSet :
            LET q == Integrate(players[i])
            IN  /\ q.y < CeilingY /\ ~PipeHitsInTick(i) =>
                      /\ players'[i].y = CeilingY
                      /\ players'[i].velocityY = 0
                      /\ players'[i].lives = players[i].lives
                      /\ players'[i].alive
                      /\ players'[i].lastHitTime = players[i].lastHitTime
                /\ q.y < CeilingY /\ PipeHitsInTick(i) =>
                      players'[i].lives = players[i].lives - 1
                /\ q.y > FloorY /\ ShieldedInTick(i) =>
                      /\ players'[i].y = FloorY
                      /\ players'[i].velocityY = Min(0, q.velocityY)
                      /\ players'[i].lives = players[i].lives
                      /\ players'[i].alive
                      /\ players'[i].lastHitTime = players[i].lastHitTime
                /\ q.y > FloorY /\ ~ShieldedInTick(i) =>
                      /\ players'[i].lives = players[i].lives - 1
                      /\ players'[i].lastHitTime = now'
                      /\ players'[i].alive = (players'[i].lives > 0)]_vars

\* One bird is held on the ceiling while it is invulnerable and another
\* rests on the floor while it is invulnerable; each has the life it had.
C33_Witness ==
    /\ phase = "playing"
    /\ \E i, j \in AliveSet :
          /\ players[i].y = CeilingY
          /\ players[i].velocityY = 0
          /\ players[i].lastHitTime > 0
          /\ now - players[i].lastHitTime < RESPAWN_INVULNERABILITY_TIME
          /\ players[i].lives = STARTING_LIVES - 1
          /\ players[j].y = FloorY
          /\ players[j].velocityY = 0
          /\ players[j].lastHitTime > 0
          /\ now - players[j].lastHitTime < RESPAWN_INVULNERABILITY_TIME
          /\ players[j].lives = STARTING_LIVES - 1

\* C34: after every handler every alive player is between the boundaries,
\* 0.02 <= y <= 0.85, and within the velocity clamp, -0.02 <= velocityY <=
\* 0.015.
C34_InBounds ==
    \A i \in AliveSet :
        /\ CeilingY <= players[i].y
        /\ players[i].y <= FloorY
        /\ MinVelocity <= players[i].velocityY
        /\ players[i].velocityY <= MaxVelocity

\* One bird falls at the clamped velocity, which gravity alone never gives
\* (it adds 0.0004 a tick), while another is held on the floor.
C34_Witness ==
    /\ phase = "playing"
    /\ \E i, j \in AliveSet :
          /\ players[i].velocityY = MaxVelocity
          /\ MaxVelocity % GRAVITY # 0
          /\ players[i].y < FloorY
          /\ players[j].y = FloorY

\* C35: while a round is played and after it has finished, a player of the
\* roster is alive exactly when it has a life left, the players who joined
\* during the round included.
C35_AliveIffLives ==
    phase \in {"playing", "finished"} =>
        \A i \in 1..Len(players) :
            players[i].alive <=> players[i].lives >= 1

\* A later round is played by a player who lost both lives in an earlier
\* one, together with a second player: both are alive and have lives.
C35_Witness ==
    /\ phase = "playing"
    /\ ticks > 0
    /\ now - startTime < ticks * deltaTime
    /\ Len(players) = 2
    /\ now > startTime
    /\ players[1].alive
    /\ players[1].lives >= 1
    /\ players[1].eliminatedAt > 0
    /\ players[2].alive

\* C36: while a round is played, every alive player has eliminatedAt = 0, in
\* every round the room plays.
C36_NotEliminatedIsZero ==
    phase = "playing" =>
        \A i \in AliveSet : players[i].eliminatedAt = 0

\* VISION_DEGRADATION_RATE * visionDegradationMultiplier for multiplier m.
DecayAt(m) == (VISION_DEGRADATION_RATE * m) \div UnitMultiplier

\* The ticks the running round has taken.
RoundTicks == (now - startTime) \div deltaTime

SameHoles(before, after) ==
    /\ Len(after.holes) = Len(before.holes)
    /\ \A h \in 1..Len(before.holes) :
          /\ after.holes[h].y = before.holes[h].y
          /\ after.holes[h].size = before.holes[h].size
          /\ after.holes[h].hasItem = before.holes[h].hasItem

\* C39: a pipe has the item in one hole at most; the place and size of its
\* holes and the hole of the item stay as generated for as long as the pipe
\* exists, through ticks and pickups, and the other handlers change the pipes
\* only by clearing them for a reset or a round start.
C39_OneItemFixedHoles ==
    /\ [](\A k \in 1..Len(pipes) :
             Cardinality({h \in 1..Len(pipes[k].holes) :
                             pipes[k].holes[h].hasItem}) <= 1)
    /\ [][TickStep =>
            \A k \in 1..Len(pipes) : \A j \in 1..Len(pipes') :
                pipes'[j].x = pipes[k].x - GAME_SPEED =>
                    SameHoles(pipes[k], pipes'[j])]_vars
    /\ [][~TickStep =>
            \/ \A k \in 1..Len(pipes) :
                  /\ k <= Len(pipes')
                  /\ pipes'[k].x = pipes[k].x
                  /\ SameHoles(pipes[k], pipes'[k])
            \/ BecamePlaying'
            \/ \E k \in 1..Len(phaseLog') : phaseLog'[k] = "waiting"]_vars

\* A pipe with two holes has the item in the lower one; a bird has collected
\* it and the item is still there.
C39_Witness ==
    \E k \in 1..Len(pipes) :
        /\ Len(pipes[k].holes) = 2
        /\ ~pipes[k].holes[1].hasItem
        /\ pipes[k].holes[2].hasItem
        /\ pipes[k].holes[2].itemCollectedBy # <<>>
        /\ pipes[k].x < BirdX

\* C40: a tick leaves a player that is not alive as it is, field by field,
\* and gives it neither an item nor a point.
C40_DeadStayPut ==
    [][TickStep =>
         \A i \in 1..Len(players) :
            ~players[i].alive =>
               /\ players'[i] = players[i]
               /\ ~CollectsInTick(players[i].id)
               /\ i \notin GainsInTick]_vars

\* Ticks have passed since a bird lost its last life; the round goes on with
\* another bird, a pipe is at the column and has been passed, and the dead
\* bird is where it fell, with the hit time and the score of that tick.
C40_Witness ==
    /\ phase = "playing"
    /\ \E i \in 1..Len(players) :
          /\ ~players[i].alive
          /\ players[i].eliminatedAt + deltaTime <= now
          /\ players[i].lastHitTime = players[i].eliminatedAt
          /\ players[i].y > FloorY
          /\ players[i].score = 0
    /\ \E k \in AtBirdColumn : pipes[k].passed
    /\ \E j \in AliveSet : players[j].score > 0

====
